---------------------------- MODULE Spec2Model ----------------------------
(***************************************************************************)
(* A model of the httpbin.deno.dev echo server: the request pipeline       *)
(* (trailing-slash middleware, timing middleware, router, route handlers)  *)
(* and the request introspection helpers toObject / basicInfo / bodyInfo.  *)
(*                                                                         *)
(* Strings that the code inspects character by character (header values,  *)
(* paths, query values, base64 tokens) are sequences of character codes.   *)
(* Keys and tags that the code only compares as a whole are TLA+ strings.  *)
(***************************************************************************)
EXTENDS Integers, Sequences, FiniteSets, TLC

(***************************************************************************)
(* Bounds of the model.                                                    *)
(***************************************************************************)
\* most space-separated fragments of a generated Authorization value
MaxFrags == 3
\* most digits of a generated /status/{code} parameter
MaxDigits == 3
\* most entries of a generated /redirect query string
MaxParams == 2
\* most entries of a generated header or query multi-map for the echo routes
MaxEntries == 2
\* most trailing slashes appended to a generated path
MaxSlashes == 2

(***************************************************************************)
(* Character codes and string literals of the source.                      *)
(***************************************************************************)
SP == 32
COLON == 58
SLASH == 47

BasicStr == <<66, 97, 115, 105, 99>>            \* "Basic"
BearerStr == <<66, 101, 97, 114, 101, 114>>     \* "Bearer"
OneStr == <<49>>                                \* "1"
TrueStr == <<116, 114, 117, 101>>               \* "true"
MsStr == <<109, 115>>                           \* "ms"
RealmStr == <<66, 97, 115, 105, 99, 32, 114, 101, 97, 108, 109, 61, 34, 98, 108, 97, 104, 34>>  \* Basic realm="blah"

\* path segments of the route table
SegGet == <<103, 101, 116>>
SegPost == <<112, 111, 115, 116>>
SegPut == <<112, 117, 116>>
SegPatch == <<112, 97, 116, 99, 104>>
SegDelete == <<100, 101, 108, 101, 116, 101>>
SegAuth == <<97, 117, 116, 104>>
SegBasic == <<98, 97, 115, 105, 99>>
SegBearer == <<98, 101, 97, 114, 101, 114>>
SegStatus == <<115, 116, 97, 116, 117, 115>>
SegIp == <<105, 112>>
SegUserAgent == <<117, 115, 101, 114, 45, 97, 103, 101, 110, 116>>
SegHeaders == <<104, 101, 97, 100, 101, 114, 115>>
SegRedirect == <<114, 101, 100, 105, 114, 101, 99, 116>>

(***************************************************************************)
(* String primitives of the platform, as the code uses them.               *)
(***************************************************************************)
\* String.prototype.startsWith
StartsWith(s, p) == Len(s) >= Len(p) /\ SubSeq(s, 1, Len(p)) = p

\* String.prototype.endsWith for a one-character suffix
EndsWithChar(s, c) == Len(s) >= 1 /\ s[Len(s)] = c

\* String.prototype.split(sep) for a one-character separator: the fragments
\* between separators, empty fragments kept; always at least one fragment
RECURSIVE SplitFrom(_, _, _, _)
SplitFrom(s, c, i, cur) ==
  IF i > Len(s) THEN <<cur>>
  ELSE IF s[i] = c THEN <<cur>> \o SplitFrom(s, c, i + 1, <<>>)
  ELSE SplitFrom(s, c, i + 1, Append(cur, s[i]))

Split(s, c) == SplitFrom(s, c, 1, <<>>)

\* Array.prototype.join / header value combination
RECURSIVE Join(_, _)
Join(parts, sep) ==
  IF Len(parts) = 0 THEN <<>>
  ELSE IF Len(parts) = 1 THEN parts[1]
  ELSE parts[1] \o sep \o Join(Tail(parts), sep)

\* Number -> string, for non-negative integers below 10^21: decimal digits
RECURSIVE NumToStr(_)
NumToStr(n) ==
  IF n < 10 THEN <<48 + n>> ELSE Append(NumToStr(n \div 10), 48 + (n % 10))

\* unary plus on a string of decimal digits
RECURSIVE DigitsToNum(_)
DigitsToNum(s) ==
  IF Len(s) = 0 THEN 0
  ELSE 10 * DigitsToNum(SubSeq(s, 1, Len(s) - 1)) + (s[Len(s)] - 48)

IsDigit(c) == c >= 48 /\ c <= 57

\* the route pattern \d+
AllDigits(s) == Len(s) >= 1 /\ \A i \in 1..Len(s) : IsDigit(s[i])

(***************************************************************************)
(* atob: the forgiving base64 decode.  Result [ok, bytes]; ok = FALSE is   *)
(* the InvalidCharacterError the platform throws.                          *)
(***************************************************************************)
B64Val(c) ==
  IF c >= 65 /\ c <= 90 THEN c - 65
  ELSE IF c >= 97 /\ c <= 122 THEN c - 71
  ELSE IF c >= 48 /\ c <= 57 THEN c + 4
  ELSE IF c = 43 THEN 62
  ELSE IF c = 47 THEN 63
  ELSE -1

IsAsciiWhitespace(c) == c \in {9, 10, 12, 13, 32}

StripPadding(s) ==
  IF Len(s) % 4 = 0 /\ Len(s) >= 1 /\ s[Len(s)] = 61
  THEN IF Len(s) >= 2 /\ s[Len(s) - 1] = 61
       THEN SubSeq(s, 1, Len(s) - 2)
       ELSE SubSeq(s, 1, Len(s) - 1)
  ELSE s

RECURSIVE DecodeGroups(_)
DecodeGroups(v) ==
  IF Len(v) >= 4 THEN
    LET n == ((v[1] * 64 + v[2]) * 64 + v[3]) * 64 + v[4]
    IN  <<n \div 65536, (n \div 256) % 256, n % 256>> \o DecodeGroups(SubSeq(v, 5, Len(v)))
  ELSE IF Len(v) = 3 THEN
    LET n == ((v[1] * 64 + v[2]) * 64 + v[3]) \div 4
    IN  <<n \div 256, n % 256>>
  ELSE IF Len(v) = 2 THEN
    <<(v[1] * 64 + v[2]) \div 16>>
  ELSE <<>>

Atob(s) ==
  LET data == StripPadding(SelectSeq(s, LAMBDA c : ~IsAsciiWhitespace(c)))
  IN  IF Len(data) % 4 = 1 \/ \E i \in 1..Len(data) : B64Val(data[i]) < 0
      THEN [ok |-> FALSE, bytes |-> <<>>]
      ELSE [ok |-> TRUE, bytes |-> DecodeGroups([i \in 1..Len(data) |-> B64Val(data[i])])]

(***************************************************************************)
(* Headers and URLSearchParams: ordered multi-maps, sequences of entries   *)
(* [k, v].  Header names are stored lower-cased and header values trimmed, *)
(* as the platform's Headers object holds them.                            *)
(***************************************************************************)
CommaSp == <<44, 32>>

\* the values of key k, in original order
RECURSIVE GetAll(_, _)
GetAll(m, k) ==
  IF Len(m) = 0 THEN <<>>
  ELSE IF m[1].k = k THEN <<m[1].v>> \o GetAll(Tail(m), k)
  ELSE GetAll(Tail(m), k)

Has(m, k) == \E i \in 1..Len(m) : m[i].k = k

\* URLSearchParams.get: the first value, or null
ParamsGet(m, k) ==
  IF Has(m, k) THEN [null |-> FALSE, v |-> GetAll(m, k)[1]]
  ELSE [null |-> TRUE, v |-> <<>>]

\* Headers.get: all values of the name combined with ", ", or null
HeadersGet(m, k) ==
  IF Has(m, k) THEN [null |-> FALSE, v |-> Join(GetAll(m, k), CommaSp)]
  ELSE [null |-> TRUE, v |-> <<>>]

\* JavaScript truthiness of a string-or-null
Truthy(x) == ~x.null /\ Len(x.v) > 0

\* ret[key] = value on a JSON object
Put(obj, k, val) == [j \in DOMAIN obj \cup {k} |-> IF j = k THEN val ELSE obj[j]]

EmptyObj == [j \in {} |-> 0]

StrVal(s) == [t |-> "str", v |-> s]
ArrVal(a) == [t |-> "arr", v |-> a]
NullVal == [t |-> "null"]

\* toObject, the Headers branch: for each key, the combined value, kept only
\* when it is truthy
RECURSIVE ToObjectHeadersFrom(_, _, _)
ToObjectHeadersFrom(original, i, ret) ==
  IF i > Len(original) THEN ret
  ELSE LET key == original[i].k
           value == HeadersGet(original, key)
       IN  ToObjectHeadersFrom(original, i + 1,
             IF Truthy(value) THEN Put(ret, key, StrVal(value.v)) ELSE ret)

ToObjectHeaders(original) == ToObjectHeadersFrom(original, 1, EmptyObj)

\* (mutant) the first value, however many there are
FlattenValues_FirstOnly(values) == StrVal(values[1])

\* values.length === 1 ? values[0] : values
FlattenValues(values) == IF Len(values) = 1 THEN StrVal(values[1]) ELSE ArrVal(values)

\* toObject, the URLSearchParams branch: for each key, the single value or
\* the array of all values
RECURSIVE ToObjectParamsFrom(_, _, _)
ToObjectParamsFrom(original, i, ret) ==
  IF i > Len(original) THEN ret
  ELSE LET key == original[i].k
           values == GetAll(original, key)
       IN  ToObjectParamsFrom(original, i + 1, Put(ret, key, FlattenValues(values)))

\* (mutant) entries with an empty value are skipped, as the Headers branch
\* skips them
ToObjectParams_SkipEmpty(original) ==
  ToObjectParamsFrom(SelectSeq(original, LAMBDA e : e.v # <<>>), 1, EmptyObj)

ToObjectParams(original) == ToObjectParamsFrom(original, 1, EmptyObj)

\* basicInfo
BasicInfo(r) ==
  [origin |-> r.ip,
   url |-> [path |-> r.path, query |-> r.query],
   searchParams |-> ToObjectParams(r.query),
   headers |-> ToObjectHeaders(r.headers)]

\* Uint8Array.prototype.toString: the decimal bytes joined with ","
BytesToString(b) == Join([i \in 1..Len(b) |-> NumToStr(b[i])], <<44>>)

\* (mutant) absent files stay undefined, and the key is left out of the JSON
FilesOrNull_Undefined(files) ==
  IF files = "undefined" THEN [t |-> "undefined"] ELSE [t |-> "files", v |-> files]

\* formData.files ?? null
FilesOrNull(files) ==
  IF files = "undefined" THEN NullVal ELSE [t |-> "files", v |-> files]

\* req.body() with no argument: the body type the framework finds from the
\* presence of a body and its declared content type; a body of any other
\* content type is read as bytes
BodyType(declared) ==
  CASE declared = "absent" -> "undefined"
    [] declared = "application/json" -> "json"
    [] declared = "multipart/form-data" -> "form-data"
    [] declared = "application/x-www-form-urlencoded" -> "form"
    [] declared = "text/plain" -> "text"
    [] OTHER -> "bytes"

\* The request body is [declared, type, detectOk, readOk, payload]: declared
\* is the content type the request declares ("absent" without a body), type
\* what req.body() makes of it, detectOk = FALSE
\* when req.body() throws, readOk = FALSE when awaiting or decoding the value
\* throws.  A result is [threw, body].
\*
\* The try block of bodyInfo; onThrow is what becomes of an exception in it.
TryDecode(r, onThrow) ==
  LET b == r.body
      ret(v) == [threw |-> FALSE, body |-> [type |-> b.type, value |-> v]]
  IN  IF ~b.detectOk THEN onThrow
      ELSE IF b.type = "json" THEN
        IF b.readOk THEN ret([t |-> "json", v |-> b.payload]) ELSE onThrow
      ELSE IF b.type = "form-data" THEN
        IF b.readOk
        THEN ret([t |-> "multipart",
                  fields |-> b.payload.fields,
                  files |-> FilesOrNull(b.payload.files)])
        ELSE onThrow
      ELSE IF b.type = "form" THEN
        IF b.readOk THEN ret([t |-> "obj", v |-> ToObjectParams(b.payload)]) ELSE onThrow
      ELSE IF b.type = "text" THEN
        IF b.readOk THEN ret(StrVal(b.payload)) ELSE onThrow
      ELSE IF b.type = "bytes" THEN
        IF b.readOk THEN ret(StrVal(BytesToString(b.payload))) ELSE onThrow
      ELSE ret(NullVal)

\* (mutant) bodyInfo without its catch: the exception propagates
BodyInfo_NoCatch(r) ==
  TryDecode(r, [threw |-> TRUE, body |-> [type |-> "none", value |-> NullVal]])

\* bodyInfo: the try block, and the catch that returns the error body
BodyInfo(r) ==
  TryDecode(r, [threw |-> FALSE, body |-> [type |-> "error", value |-> NullVal]])

(***************************************************************************)
(* The response object of the serving layer.  status = 0: not set.         *)
(***************************************************************************)
Unset == [t |-> "unset"]

EmptyResponse == [status |-> 0, body |-> Unset, headers |-> EmptyObj]

SetHeader(resp, name, value) == [resp EXCEPT !.headers = Put(resp.headers, name, value)]

JsonBody(obj) == [t |-> "json", v |-> obj]

HexDigit(n) == IF n < 10 THEN 48 + n ELSE 55 + n

\* characters the redirect helper's URL encoder leaves as they are
UrlSafe(c) ==
  \/ c \in {33, 35, 36, 37, 61, 93, 95, 126}
  \/ c >= 38 /\ c <= 59
  \/ c >= 63 /\ c <= 91
  \/ c >= 97 /\ c <= 122

\* the URL encoding applied to a redirect target: unsafe ASCII characters
\* are percent-encoded
RECURSIVE EncodeUrl(_)
EncodeUrl(url) ==
  IF Len(url) = 0 THEN <<>>
  ELSE (IF UrlSafe(url[1]) THEN <<url[1]>>
        ELSE <<37, HexDigit(url[1] \div 16), HexDigit(url[1] % 16)>>)
       \o EncodeUrl(Tail(url))

IsRedirectStatus(s) == s \in {300, 301, 302, 303, 305, 307, 308}

\* ctx.response.redirect(url): the Location header, 302 unless a redirect
\* status is already set, and a short text body
Redirect(resp, url) ==
  [status |-> IF IsRedirectStatus(resp.status) THEN resp.status ELSE 302,
   body |-> [t |-> "text", v |-> "Redirecting"],
   headers |-> Put(resp.headers, "location", EncodeUrl(url))]

(***************************************************************************)
(* Requests.  A request is [method, path, query, headers, body, ip]; the   *)
(* generated requests are the union of one family per route, each varying  *)
(* the inputs its handler reads.                                           *)
(***************************************************************************)
SeqsUpTo(S, n) == UNION {[1..k -> S] : k \in 0..n}

PathOf(segs) == <<SLASH>> \o Join(segs, <<SLASH>>)

Methods == {"GET", "HEAD", "POST", "PUT", "PATCH", "DELETE", "OPTIONS"}

Body(declared, detectOk, readOk, payload) ==
  [declared |-> declared, type |-> BodyType(declared),
   detectOk |-> detectOk, readOk |-> readOk, payload |-> payload]

NoBody == Body("absent", TRUE, TRUE, <<>>)

Request(m, p, q, h, b, ip) ==
  [method |-> m, path |-> p, query |-> q, headers |-> h, body |-> b, ip |-> ip]

NoRequest == Request("", <<>>, <<>>, <<>>, NoBody, "")

\* --- Authorization values: a scheme followed by tokens, joined by spaces
Schemes == {BasicStr, <<98, 97, 115, 105, 99>>, BasicStr \o <<120>>, BearerStr}

Tokens ==
  { <<97, 68, 112, 51>>,                  \* aDp3      = base64("h:w")
    <<100, 122, 112, 111>>,               \* dzpo      = base64("w:h")
    <<83, 68, 112, 51>>,                  \* SDp3      = base64("H:w")
    <<97, 68, 112, 51, 79, 103, 61, 61>>, \* aDp3Og==  = base64("h:w:")
    <<97, 65, 61, 61>>,                   \* aA==      = base64("h")
    <<33, 33>>,                           \* !!        not base64
    <<97, 68, 112, 51, 97>> }             \* aDp3a     not base64 (length)

FragLists ==
  { f \in UNION {[1..k -> Schemes \cup Tokens \cup {<<>>}] : k \in 1..MaxFrags} :
      /\ f[1] \in Schemes
      /\ \A i \in 2..Len(f) : f[i] \in Tokens \cup {<<>>}
      /\ f[Len(f)] # <<>> }

AuthValues == {Join(f, <<SP>>) : f \in FragLists}

AuthHeaderLists ==
  {<<>>} \cup {<<[k |-> "authorization", v |-> a]>> : a \in AuthValues}

Users == {<<104>>, <<72>>}       \* "h", "H"
Passwords == {<<119>>, <<104>>}  \* "w", "h"

BasicRequests ==
  { Request("GET", PathOf(<<SegAuth, SegBasic, u, p>>), <<>>, h, NoBody, "10.0.0.1") :
      u \in Users, p \in Passwords, h \in AuthHeaderLists }

BearerRequests ==
  { Request("GET", PathOf(<<SegAuth, SegBearer>>), <<>>, h, NoBody, "10.0.0.1") :
      h \in AuthHeaderLists }

\* --- /status/{code}
DigitChars == {48, 49, 50, 53, 54, 57}

Codes == UNION {[1..k -> DigitChars] : k \in 1..MaxDigits}

NonNumericCodes == {<<97, 98, 99>>, <<50, 120, 48>>}   \* "abc", "2x0"

StatusRequests ==
  { Request(m, PathOf(<<SegStatus, c>>), <<>>, <<>>, NoBody, "10.0.0.1") :
      m \in Methods, c \in Codes }
  \cup
  { Request("GET", PathOf(<<SegStatus, c>>), <<>>, <<>>, NoBody, "10.0.0.1") :
      c \in NonNumericCodes }

\* --- /redirect
RedirectValues ==
  {<<>>, <<117>>, <<97, 32, 98>>, OneStr, TrueStr, <<48>>}   \* "", "u", "a b", "1", "true", "0"

RedirectQueries ==
  SeqsUpTo({[k |-> key, v |-> val] : key \in {"to", "permanent"}, val \in RedirectValues},
           MaxParams)

RedirectRequests ==
  { Request("GET", PathOf(<<SegRedirect>>), q, <<>>, NoBody, "10.0.0.1") :
      q \in RedirectQueries }

\* --- the echo routes
EchoValues == {<<>>, <<120>>, <<121>>}   \* "", "x", "y"

QueryLists ==
  SeqsUpTo({[k |-> key, v |-> val] : key \in {"a", "b"}, val \in EchoValues}, MaxEntries)

HeaderLists ==
  SeqsUpTo({[k |-> key, v |-> val] : key \in {"accept", "user-agent"}, val \in EchoValues},
           MaxEntries)

SampleQuery == <<[k |-> "a", v |-> <<120>>], [k |-> "a", v |-> <<121>>]>>
SampleHeaders == <<[k |-> "accept", v |-> <<120>>]>>

Ips == {"10.0.0.1", "10.0.0.2"}

ReadRequests ==
  { Request("GET", PathOf(<<SegGet>>), q, SampleHeaders, NoBody, ip) :
      q \in QueryLists, ip \in Ips }
  \cup
  { Request("GET", PathOf(<<s>>), SampleQuery, h, NoBody, "10.0.0.1") :
      s \in {SegGet, SegHeaders, SegUserAgent, SegIp}, h \in HeaderLists }

Bodies ==
  { Body("absent", FALSE, TRUE, <<>>) }
  \cup
  { Body("application/json", TRUE, ok, "parsed") : ok \in BOOLEAN }
  \cup
  { Body("multipart/form-data", TRUE, ok, [fields |-> "fields", files |-> f]) :
      ok \in BOOLEAN, f \in {"undefined", "files"} }
  \cup
  { Body("application/x-www-form-urlencoded", TRUE, ok, q) :
      ok \in BOOLEAN, q \in {<<>>, SampleQuery} }
  \cup
  { Body("text/plain", TRUE, ok, <<120>>) : ok \in BOOLEAN }
  \cup
  { Body(ct, TRUE, ok, <<1, 255>>) :
      ct \in {"application/octet-stream", "image/png"}, ok \in BOOLEAN }
  \cup {NoBody}

WriteRequests ==
  { Request(m, PathOf(<<s>>), SampleQuery, SampleHeaders, b, "10.0.0.1") :
      m \in {"POST", "PUT", "PATCH", "DELETE", "GET"},
      s \in {SegPost, SegPut, SegPatch, SegDelete},
      b \in Bodies }

\* --- paths with trailing slashes, and paths no route has
RECURSIVE Slashes(_)
Slashes(n) == IF n = 0 THEN <<>> ELSE <<SLASH>> \o Slashes(n - 1)

BasePaths ==
  { <<SLASH>>, PathOf(<<SegGet>>), PathOf(<<SegPost>>), PathOf(<<SegStatus, <<50, 48, 48>>>>),
    PathOf(<<SegAuth, SegBearer>>), PathOf(<<<<110, 111>>>>) }

SlashRequests ==
  { Request(m, p \o Slashes(n), <<>>, <<>>, NoBody, "10.0.0.1") :
      m \in {"GET", "POST"}, p \in BasePaths, n \in 0..MaxSlashes }

Requests ==
  BasicRequests \cup BearerRequests \cup StatusRequests \cup RedirectRequests
  \cup ReadRequests \cup WriteRequests \cup SlashRequests

(***************************************************************************)
(* The route table.                                                        *)
(***************************************************************************)
PathSegs(path) == Tail(Split(path, SLASH))

Routes ==
  <<"get", "post", "put", "patch", "delete", "basic", "bearer", "status",
    "ip", "user-agent", "headers", "redirect">>

WriteRoutes == {"post", "put", "patch", "delete"}

\* whether the path matches the route's pattern
PathMatches(route, segs) ==
  CASE route = "get" -> segs = <<SegGet>>
    [] route = "post" -> segs = <<SegPost>>
    [] route = "put" -> segs = <<SegPut>>
    [] route = "patch" -> segs = <<SegPatch>>
    [] route = "delete" -> segs = <<SegDelete>>
    [] route = "basic" ->
         /\ Len(segs) = 4
         /\ segs[1] = SegAuth /\ segs[2] = SegBasic
         /\ Len(segs[3]) >= 1 /\ Len(segs[4]) >= 1
    [] route = "bearer" -> segs = <<SegAuth, SegBearer>>
    [] route = "status" ->
         /\ Len(segs) = 2
         /\ segs[1] = SegStatus
         /\ AllDigits(segs[2])
    [] route = "ip" -> segs = <<SegIp>>
    [] route = "user-agent" -> segs = <<SegUserAgent>>
    [] route = "headers" -> segs = <<SegHeaders>>
    [] route = "redirect" -> segs = <<SegRedirect>>

\* the methods a route is registered for: router.get registers HEAD and
\* GET, router.all every method the router implements
RouteMethods(route) ==
  CASE route \in {"get", "basic", "bearer", "ip", "user-agent", "headers", "redirect"} ->
         {"HEAD", "GET"}
    [] route = "post" -> {"POST"}
    [] route = "put" -> {"PUT"}
    [] route = "patch" -> {"PATCH"}
    [] route = "delete" -> {"DELETE"}
    [] route = "status" -> Methods

RouteNames == {Routes[i] : i \in 1..Len(Routes)}

\* ctx.matched: the routes whose path pattern matches
PathMatched(r) == {rt \in RouteNames : PathMatches(rt, PathSegs(r.path))}

\* whether the router dispatches the request to the route
Dispatches(r, route) ==
  r.method \in RouteMethods(route) /\ PathMatches(route, PathSegs(r.path))

(***************************************************************************)
(* State.                                                                  *)
(*   pc       position of the request in the middleware chain              *)
(*   req      the request being served                                     *)
(*   resp     ctx.response                                                 *)
(*   invoked  the middlewares and handlers that have run for the request   *)
(*   start    the timing middleware's start time, in microseconds          *)
(*   pending  what a suspended write-method handler holds across its await *)
(*                                                                         *)
(* These six are the context of the exchange the event loop is running.    *)
(*   other    the context of a second exchange, suspended meanwhile        *)
(*                                                                         *)
(* A client that follows redirects:                                        *)
(*   asked    the path the client first asked for                          *)
(*   hops     the redirects it has followed since                          *)
(*                                                                         *)
(* The benchmark scripts:                                                  *)
(*   script   the script that is running                                   *)
(*   tasks    the list handed to pSeries                                   *)
(*   bpc      the script's position                                        *)
(*   task     the index of the benchmark that is running                   *)
(*   target   the server being measured                                    *)
(*   iter     measure's loop counter i                                     *)
(*   values   measure's values                                             *)
(*   times    the times benchmark has measured so far                      *)
(*   results  the results of the benchmarks finished                       *)
(*   network  how long the servers take to answer during the run           *)
(*   log      the requests sent, each with its answer once it has one      *)
(***************************************************************************)
VARIABLES pc, req, resp, invoked, start, pending, other,
          asked, hops,
          script, tasks, bpc, task, target, iter, values, times, results,
          network, log

ctx == <<pc, req, resp, invoked, start, pending>>
clientVars == <<asked, hops>>
benchVars ==
  <<script, tasks, bpc, task, target, iter, values, times, results, network, log>>

vars == <<ctx, other, clientVars, benchVars>>

\* what an action of one exchange leaves alone
elsewhere == <<other, clientVars, benchVars>>

StartTimes == {0, 2500}
Elapsed == {0, 1004, 12996}

NoPending == [basic |-> EmptyObj, body |-> [threw |-> FALSE, body |-> [type |-> "none", value |-> NullVal]]]

IdleContext ==
  [pc |-> "idle", req |-> NoRequest, resp |-> EmptyResponse, invoked |-> {},
   start |-> 0, pending |-> NoPending]

Init ==
  /\ pc = "idle"
  /\ req = NoRequest
  /\ resp = EmptyResponse
  /\ invoked = {}
  /\ start = 0
  /\ pending = NoPending
  /\ other = IdleContext
  /\ asked = <<>>
  /\ hops = 0
  /\ script = "none"
  /\ tasks = <<>>
  /\ bpc = "off"
  /\ task = 0
  /\ target = "none"
  /\ iter = 0
  /\ values = <<>>
  /\ times = EmptyObj
  /\ results = <<>>
  /\ network = "none"
  /\ log = <<>>

\* the serving layer hands a request to the middleware chain
Accept(r) ==
  /\ req' = r
  /\ pc' = "slash"
  /\ resp' = EmptyResponse
  /\ invoked' = {}
  /\ UNCHANGED <<start, pending>>

Receive ==
  /\ pc = "idle"
  /\ \E r \in Requests : Accept(r)
  /\ UNCHANGED elsewhere

\* (mutant) the root path is not exempted
NeedsSlashRedirect_NoRootCheck(path) == EndsWithChar(path, SLASH)

\* whether the trailing-slash middleware answers the request itself
NeedsSlashRedirect(path) == path # <<SLASH>> /\ EndsWithChar(path, SLASH)

\* app.use: "Remove trailing slashes"
TrailingSlash ==
  /\ pc = "slash"
  /\ invoked' = invoked \cup {"slash"}
  /\ IF NeedsSlashRedirect(req.path)
     THEN /\ resp' = Redirect([resp EXCEPT !.status = 301],
                              SubSeq(req.path, 1, Len(req.path) - 1))
          /\ pc' = "send"
     ELSE /\ resp' = resp
          /\ pc' = "timing"
  /\ UNCHANGED <<req, start, pending>>
  /\ UNCHANGED elsewhere

\* app.use: "Performance timing", up to its await next()
TimingStart ==
  /\ pc = "timing"
  /\ \E t \in StartTimes : start' = t
  /\ invoked' = invoked \cup {"timing"}
  /\ pc' = "route"
  /\ UNCHANGED <<req, resp, pending>>
  /\ UNCHANGED elsewhere

\* Number.prototype.toFixed(2) of a time in milliseconds, given in microseconds
ToFixed2(us) ==
  LET h == (us + 5) \div 10
  IN  NumToStr(h \div 100) \o <<46, 48 + ((h % 100) \div 10), 48 + (h % 10)>>

\* "Performance timing", after its await next() returned normally
TimingEnd ==
  /\ pc = "timingEnd"
  /\ \E d \in Elapsed :
       LET ms == (start + d) - start
       IN  resp' = SetHeader(resp, "x-response-time", ToFixed2(ms) \o MsStr)
  /\ pc' = "send"
  /\ UNCHANGED <<req, invoked, start, pending>>
  /\ UNCHANGED elsewhere

\* what every route handler leaves behind when it returns normally
Handled(route, r) ==
  /\ resp' = r
  /\ invoked' = invoked \cup {"router", route}
  /\ pc' = "timingEnd"
  /\ UNCHANGED <<req, start, pending>>
  /\ UNCHANGED elsewhere

\* an exception escapes the handler: it propagates through both middlewares
Thrown(route) ==
  /\ resp' = resp
  /\ invoked' = invoked \cup {"router", route}
  /\ pc' = "error"
  /\ UNCHANGED <<req, start, pending>>
  /\ UNCHANGED elsewhere

\* router.get('/get')
GetHandler ==
  /\ pc = "route"
  /\ Dispatches(req, "get")
  /\ Handled("get", [resp EXCEPT !.body = JsonBody(BasicInfo(req))])

\* (mutant) the right operand replaces the left
Merge_RightOnly(a, b) == b

\* {...a, ...b}
Merge(a, b) == [k \in DOMAIN a \cup DOMAIN b |-> IF k \in DOMAIN b THEN b[k] ELSE a[k]]

\* router.post / put / patch / delete, up to the await of bodyInfo
WriteHandlerStart ==
  /\ pc = "route"
  /\ \E route \in WriteRoutes :
       /\ Dispatches(req, route)
       /\ invoked' = invoked \cup {"router", route}
  /\ pending' = [basic |-> BasicInfo(req), body |-> BodyInfo(req)]
  /\ pc' = "awaitBody"
  /\ UNCHANGED <<req, resp, start>>
  /\ UNCHANGED elsewhere

\* (mutant) what the handler holds across its await is kept where the
\* handler that suspended last overwrites it
WriteHandlerResume_SharedPending ==
  /\ pc = "awaitBody"
  /\ LET held == IF other.pc = "awaitBody" THEN other.pending ELSE pending
     IN  IF held.body.threw
         THEN /\ resp' = resp
              /\ pc' = "error"
         ELSE /\ resp' = [resp EXCEPT !.body =
                            JsonBody(Merge(held.basic, [body |-> held.body.body]))]
              /\ pc' = "timingEnd"
  /\ pending' = NoPending
  /\ UNCHANGED <<req, invoked, start>>
  /\ UNCHANGED elsewhere

\* router.post / put / patch / delete, from the await on
WriteHandlerResume ==
  /\ pc = "awaitBody"
  /\ IF pending.body.threw
     THEN /\ resp' = resp
          /\ pc' = "error"
     ELSE /\ resp' = [resp EXCEPT !.body =
                        JsonBody(Merge(pending.basic, [body |-> pending.body.body]))]
          /\ pc' = "timingEnd"
  /\ pending' = NoPending
  /\ UNCHANGED <<req, invoked, start>>
  /\ UNCHANGED elsewhere

Unauthorized(challenge, key) ==
  [SetHeader(resp, "www-authenticate", challenge) EXCEPT
     !.status = 401,
     !.body = JsonBody(Put([authorized |-> FALSE], key, NullVal))]

\* router.get('/auth/basic/:username/:password')
AuthBasicHandler ==
  /\ pc = "route"
  /\ Dispatches(req, "basic")
  /\ LET username == PathSegs(req.path)[3]
         password == PathSegs(req.path)[4]
         authHeader == HeadersGet(req.headers, "authorization")
         frags == Split(authHeader.v, SP)
         decoded == Atob(frags[2])
         uAndP == Split(decoded.bytes, COLON)
     IN  IF Truthy(authHeader) /\ StartsWith(authHeader.v, BasicStr)
            /\ Len(frags) = 2 /\ frags[1] = BasicStr
         THEN IF ~decoded.ok
              THEN Thrown("basic")
              ELSE IF Len(uAndP) = 2 /\ uAndP[1] = username /\ uAndP[2] = password
              THEN Handled("basic",
                     [resp EXCEPT !.status = 200,
                                  !.body = JsonBody([authorized |-> TRUE,
                                                     username |-> StrVal(username)])])
              ELSE Handled("basic", Unauthorized(RealmStr, "username"))
         ELSE Handled("basic", Unauthorized(RealmStr, "username"))

\* (mutant) the number of fragments is not checked to be exactly two
BearerAccepted_AtLeastTwo(authHeader) ==
  /\ Truthy(authHeader) /\ StartsWith(authHeader.v, BearerStr)
  /\ Len(Split(authHeader.v, SP)) >= 2 /\ Split(authHeader.v, SP)[1] = BearerStr

\* the two nested conditions of the bearer handler
BearerAccepted(authHeader) ==
  /\ Truthy(authHeader) /\ StartsWith(authHeader.v, BearerStr)
  /\ Len(Split(authHeader.v, SP)) = 2 /\ Split(authHeader.v, SP)[1] = BearerStr

\* router.get('/auth/bearer')
AuthBearerHandler ==
  /\ pc = "route"
  /\ Dispatches(req, "bearer")
  /\ LET authHeader == HeadersGet(req.headers, "authorization")
         frags == Split(authHeader.v, SP)
     IN  IF BearerAccepted(authHeader)
         THEN Handled("bearer",
                [resp EXCEPT !.status = 200,
                             !.body = JsonBody([authorized |-> TRUE,
                                                token |-> StrVal(frags[2])])])
         ELSE Handled("bearer", Unauthorized(BearerStr, "token"))

\* (mutant) the lower limit is excluded
OutOfRange_LowerExcluded(statusCode) == statusCode <= 200 \/ statusCode > 599

\* statusCode < 200 || statusCode > 599
OutOfRange(statusCode) == statusCode < 200 \/ statusCode > 599

\* router.all('/status/:code(\\d+)')
StatusHandler ==
  /\ pc = "route"
  /\ Dispatches(req, "status")
  /\ LET statusCode == DigitsToNum(PathSegs(req.path)[2])
     IN  IF OutOfRange(statusCode)
         THEN Handled("status",
                [resp EXCEPT !.status = 400,
                             !.body = JsonBody([error |->
                                <<"status code ", NumToStr(statusCode),
                                  " is outside the range [200, 599]">>])])
         ELSE Handled("status", [resp EXCEPT !.status = statusCode, !.body = NullVal])

\* router.get('/ip')
IpHandler ==
  /\ pc = "route"
  /\ Dispatches(req, "ip")
  /\ Handled("ip", [resp EXCEPT !.body = JsonBody([origin |-> req.ip])])

\* router.get('/user-agent')
UserAgentHandler ==
  /\ pc = "route"
  /\ Dispatches(req, "user-agent")
  /\ LET ua == HeadersGet(req.headers, "user-agent")
     IN  Handled("user-agent",
           [resp EXCEPT !.body =
              JsonBody([ua |-> IF ua.null THEN NullVal ELSE StrVal(ua.v)])])

\* router.get('/headers')
HeadersHandler ==
  /\ pc = "route"
  /\ Dispatches(req, "headers")
  /\ Handled("headers",
       [resp EXCEPT !.body = JsonBody([headers |-> ToObjectHeaders(req.headers)])])

\* (mutant) only an absent 'to' is refused
MissingTo_AbsentOnly(to) == to.null

\* !to
MissingTo(to) == ~Truthy(to)

\* router.get('/redirect')
RedirectHandler ==
  /\ pc = "route"
  /\ Dispatches(req, "redirect")
  /\ LET to == ParamsGet(req.query, "to")
         permanent == ParamsGet(req.query, "permanent")
     IN  IF MissingTo(to)
         THEN Handled("redirect",
                [resp EXCEPT !.status = 400,
                             !.body = JsonBody([error |-> <<"provide a to link in the URL">>])])
         ELSE Handled("redirect",
                Redirect(IF ~permanent.null /\ (permanent.v = OneStr \/ permanent.v = TrueStr)
                         THEN [resp EXCEPT !.status = 301]
                         ELSE resp,
                         to.v))

\* app.use(router.routes()) finds no route and calls next();
\* app.use(router.allowedMethods()) then answers for the paths some route has
NoRoute ==
  /\ pc = "route"
  /\ \A route \in RouteNames : ~Dispatches(req, route)
  /\ LET allowed == UNION {RouteMethods(rt) : rt \in PathMatched(req)}
     IN  resp' = IF allowed = {} THEN resp
                 ELSE IF req.method = "OPTIONS"
                 THEN [SetHeader(resp, "allowed", allowed) EXCEPT !.status = 200]
                 ELSE IF req.method \notin allowed
                 THEN [SetHeader(resp, "allowed", allowed) EXCEPT !.status = 405]
                 ELSE resp
  /\ invoked' = invoked \cup {"router", "allowedMethods"}
  /\ pc' = "timingEnd"
  /\ UNCHANGED <<req, start, pending>>
  /\ UNCHANGED elsewhere

\* the serving layer's error handler, for an exception no middleware caught:
\* the response headers are cleared and the answer is 500
HandleError ==
  /\ pc = "error"
  /\ resp' = [status |-> 500,
              body |-> [t |-> "text", v |-> "Internal Server Error"],
              headers |-> EmptyObj]
  /\ pc' = "send"
  /\ UNCHANGED <<req, invoked, start, pending>>
  /\ UNCHANGED elsewhere

\* the status the response goes out with: the one set, else 200 with a
\* body and 404 without
FinalStatus(r) ==
  IF r.status # 0 THEN r.status
  ELSE IF r.body.t \in {"null", "unset"} THEN 404 ELSE 200

\* the response is sent
Send ==
  /\ pc = "send"
  /\ resp' = [resp EXCEPT !.status = FinalStatus(resp)]
  /\ pc' = "done"
  /\ UNCHANGED <<req, invoked, start, pending>>
  /\ UNCHANGED elsewhere

\* the exchange is over; the server waits for the next request
Finish ==
  /\ pc = "done"
  /\ pc' = "idle"
  /\ req' = NoRequest
  /\ resp' = EmptyResponse
  /\ invoked' = {}
  /\ start' = 0
  /\ pending' = NoPending
  /\ UNCHANGED elsewhere

Next ==
  \/ Receive
  \/ TrailingSlash
  \/ TimingStart
  \/ GetHandler
  \/ WriteHandlerStart
  \/ WriteHandlerResume
  \/ AuthBasicHandler
  \/ AuthBearerHandler
  \/ StatusHandler
  \/ IpHandler
  \/ UserAgentHandler
  \/ HeadersHandler
  \/ RedirectHandler
  \/ NoRoute
  \/ TimingEnd
  \/ HandleError
  \/ Send
  \/ Finish

Spec == Init /\ [][Next]_vars

(***************************************************************************)
(* Two exchanges at once.  The event loop runs one handler at a time and   *)
(* leaves it only where it awaits input or output: while the body is read, *)
(* and when no handler runs.  Each exchange has its own ctx, and the       *)
(* handlers keep what they hold in locals of their own call.               *)
(***************************************************************************)
ConcRequests ==
  { Request("POST", PathOf(<<SegPost>>), <<>>, SampleHeaders, b, ip) :
      b \in { Body("application/json", TRUE, TRUE, "parsed"),
              Body("application/json", TRUE, FALSE, "parsed"),
              Body("text/plain", TRUE, TRUE, <<120>>) },
      ip \in Ips }
  \cup
  { Request("PUT", PathOf(<<SegPut>>), q, <<>>,
            Body("application/x-www-form-urlencoded", TRUE, TRUE, q), "10.0.0.1") :
      q \in {<<>>, SampleQuery} }
  \cup
  { Request("GET", PathOf(<<s>>), SampleQuery, SampleHeaders, NoBody, ip) :
      s \in {SegGet, SegIp}, ip \in Ips }

ReceiveConc ==
  /\ pc = "idle"
  /\ \E r \in ConcRequests : Accept(r)
  /\ UNCHANGED elsewhere

\* where the running handler can be left for another
Suspended == pc \in {"idle", "awaitBody", "done"}

\* the event loop leaves the running exchange and takes up the other one
Switch ==
  /\ Suspended
  /\ other' = [pc |-> pc, req |-> req, resp |-> resp, invoked |-> invoked,
               start |-> start, pending |-> pending]
  /\ pc' = other.pc
  /\ req' = other.req
  /\ resp' = other.resp
  /\ invoked' = other.invoked
  /\ start' = other.start
  /\ pending' = other.pending
  /\ UNCHANGED <<clientVars, benchVars>>

NextConc ==
  \/ ReceiveConc
  \/ TrailingSlash
  \/ TimingStart
  \/ GetHandler
  \/ WriteHandlerStart
  \/ WriteHandlerResume
  \/ IpHandler
  \/ TimingEnd
  \/ Send
  \/ Finish
  \/ Switch

SpecConc == Init /\ [][NextConc]_vars

(***************************************************************************)
(* The benchmark scripts that measure three servers: src/_benchmark.ts and *)
(* the earlier script in src/unnamed/part_001.  A run takes the list of    *)
(* benchmarks one after another (pSeries awaits each before it calls the   *)
(* next); a benchmark measures deno, python and go in turn; a measurement  *)
(* awaits ITERATIONS timed requests one after another and averages them.   *)
(* The progress bar is output only and is left out.  An exception of       *)
(* timeRequest is caught nowhere and ends the run.                         *)
(***************************************************************************)
ITERATIONS == 10

DENO_ROOT == "https://httpbin.deno.dev"
PYTHON_ROOT == "https://pie.dev"
GO_ROOT == "https://httpbun.org"

Scripts == {"_benchmark.ts", "part_001"}

Targets == <<"deno", "python", "go">>

\* a BenchmarkEndpoint: one string, or a record of three
StringEndpoint(p) == [t |-> "string", v |-> p]
RecordEndpoint(d, p, g) == [t |-> "record", deno |-> d, python |-> p, go |-> g]

\* benchmark: denoEndpoint, pythonEndpoint, goEndpoint
Endpoints(e) ==
  IF e.t = "string"
  THEN [deno |-> e.v, python |-> e.v, go |-> e.v]
  ELSE [deno |-> e.deno, python |-> e.python, go |-> e.go]

\* measure in src/_benchmark.ts: the root is chosen by the type
RootOf(type) ==
  IF type = "deno" THEN DENO_ROOT
  ELSE IF type = "go" THEN GO_ROOT
  ELSE PYTHON_ROOT

\* the URL src/_benchmark.ts fetches for a server: new URL(endpoint.url, root)
MeasuredUrl(e, type) == [root |-> RootOf(type), path |-> Endpoints(e)[type]]

\* the URL the script of part_001 fetches for a server: the root and the
\* endpoint its three timeRequest calls name
MeasuredUrlEarlier(e, type) ==
  IF type = "deno" THEN [root |-> DENO_ROOT, path |-> Endpoints(e).deno]
  ELSE IF type = "python" THEN [root |-> PYTHON_ROOT, path |-> Endpoints(e).python]
  ELSE [root |-> GO_ROOT, path |-> Endpoints(e).python]

UrlOf(s, e, type) ==
  IF s = "part_001" THEN MeasuredUrlEarlier(e, type) ELSE MeasuredUrl(e, type)

\* a call benchmark(endpoint, options); expectError = 0 stands for none given
Benchmark(e, expect) == [endpoint |-> e, expectError |-> expect]

BenchGet == Benchmark(StringEndpoint("/get?a=b&c=d"), 0)
BenchBearer == Benchmark(RecordEndpoint("/auth/bearer", "/bearer", "/bearer"), 401)
BenchRedirect ==
  Benchmark(RecordEndpoint("/redirect?to=https%3A%2F%2Fdeno.land%2F",
                           "/redirect-to?url=https%3A%2F%2Fdeno.land%2F",
                           "/redirect-to?url=https%3A%2F%2Fdeno.land%2F"), 302)
\* an endpoint record as its type admits: three different strings
BenchAnything == Benchmark(RecordEndpoint("/get", "/anything", "/any"), 0)

TaskLists ==
  { <<BenchGet>>, <<BenchBearer, BenchGet>>, <<BenchGet, BenchRedirect>>,
    <<BenchAnything>>, <<BenchAnything, BenchBearer>> }

\* the statuses a server answers with
Answers == {200, 302, 401, 500}

\* res.ok
Ok(status) == status >= 200 /\ status <= 299

\* timeRequest throws
Fails(status, expect) == ~Ok(status) /\ status # expect

\* how long a server takes for the i-th request of a measurement, in ms
Networks == {"steady", "cold", "ramp"}

Base(root) ==
  IF root = DENO_ROOT THEN 20 ELSE IF root = PYTHON_ROOT THEN 50 ELSE 30

Latency(n, root, i) ==
  IF n = "cold" THEN (IF i = 1 THEN Base(root) + 100 ELSE Base(root))
  ELSE IF n = "ramp" THEN Base(root) + i
  ELSE Base(root)

RECURSIVE Sum(_)
Sum(arr) == IF Len(arr) = 0 THEN 0 ELSE arr[1] + Sum(Tail(arr))

\* avg: the sum over the length, kept as a fraction
Avg(arr) == [num |-> Sum(arr), den |-> Len(arr)]

\* the script starts: pSeries calls the first benchmark, which calls measure
\* for deno, which enters its loop
BenchStart ==
  /\ bpc = "off"
  /\ \E s \in Scripts : script' = s
  /\ \E l \in TaskLists : tasks' = l
  /\ \E n \in Networks : network' = n
  /\ task' = 1
  /\ target' = "deno"
  /\ iter' = 1
  /\ values' = <<>>
  /\ bpc' = "loop"
  /\ UNCHANGED <<times, results, log>>
  /\ UNCHANGED <<ctx, other, clientVars>>

\* (mutant) the loop ends one iteration early
LoopDone_OneShort(i) == i >= ITERATIONS

\* for (i = 1; i <= ITERATIONS; i++): the loop is over
LoopDone(i) == i > ITERATIONS

\* timeRequest, up to its await of fetch
TimeRequestSend ==
  /\ bpc = "loop"
  /\ ~LoopDone(iter)
  /\ LET url == UrlOf(script, tasks[task].endpoint, target)
     IN  log' = Append(log, [task |-> task, for |-> target, root |-> url.root,
                             path |-> url.path, answered |-> FALSE, took |-> 0])
  /\ bpc' = "fetch"
  /\ UNCHANGED <<script, tasks, task, target, iter, values, times, results, network>>
  /\ UNCHANGED <<ctx, other, clientVars>>

\* timeRequest, from the answer on, and measure's values.push and i++
TimeRequestReturn ==
  /\ bpc = "fetch"
  /\ LET k == Len(log)
         d == Latency(network, log[k].root, iter)
     IN  /\ log' = [log EXCEPT ![k].answered = TRUE, ![k].took = d]
         /\ \E status \in Answers :
              IF Fails(status, tasks[task].expectError)
              THEN /\ bpc' = "failed"
                   /\ UNCHANGED <<values, iter>>
              ELSE /\ values' = Append(values, d)
                   /\ iter' = iter + 1
                   /\ bpc' = "loop"
  /\ UNCHANGED <<script, tasks, task, target, times, results, network>>
  /\ UNCHANGED <<ctx, other, clientVars>>

\* measure returns avg(values) for deno or python; benchmark calls measure
\* for the next server
MeasureReturn ==
  /\ bpc = "loop"
  /\ LoopDone(iter)
  /\ target # "go"
  /\ times' = Put(times, target, Avg(values))
  /\ target' = IF target = "deno" THEN "python" ELSE "go"
  /\ iter' = 1
  /\ values' = <<>>
  /\ UNCHANGED <<script, tasks, bpc, task, results, network, log>>
  /\ UNCHANGED <<ctx, other, clientVars>>

\* measure returns avg(values) for go; benchmark returns its result and
\* pSeries calls the next benchmark, or is done
BenchmarkReturn ==
  /\ bpc = "loop"
  /\ LoopDone(iter)
  /\ target = "go"
  /\ results' = Append(results, [endpoint |-> tasks[task].endpoint,
                                 denoTime |-> times.deno,
                                 pythonTime |-> times.python,
                                 goTime |-> Avg(values)])
  /\ times' = EmptyObj
  /\ values' = <<>>
  /\ IF task = Len(tasks)
     THEN /\ bpc' = "done"
          /\ UNCHANGED <<task, target, iter>>
     ELSE /\ task' = task + 1
          /\ target' = "deno"
          /\ iter' = 1
          /\ bpc' = "loop"
  /\ UNCHANGED <<script, tasks, network, log>>
  /\ UNCHANGED <<ctx, other, clientVars>>

NextBench ==
  \/ BenchStart
  \/ TimeRequestSend
  \/ TimeRequestReturn
  \/ MeasureReturn
  \/ BenchmarkReturn

SpecBench == Init /\ [][NextBench]_vars

(***************************************************************************)
(* A client that follows redirects.  It asks for a path and, answered with *)
(* a redirect, resolves the Location header against the URL it asked for   *)
(* and asks again.  A Location that begins with "//" is not a path of the  *)
(* same server: what follows the slashes is read as a host, and without a  *)
(* host the Location is no URL at all.                                     *)
(***************************************************************************)
FollowPaths == BasePaths \cup {<<SLASH, SLASH, 104>>}   \* and "//h"

FollowRequests ==
  { Request("GET", p \o Slashes(n), <<>>, <<>>, NoBody, "10.0.0.1") :
      p \in FollowPaths, n \in 0..MaxSlashes }

\* s without its leading slashes
RECURSIVE SkipSlashes(_)
SkipSlashes(s) ==
  IF Len(s) > 0 /\ s[1] = SLASH THEN SkipSlashes(Tail(s)) ELSE s

\* the URL a Location header names, for a request to this server
ResolveLocation(loc) ==
  IF Len(loc) >= 2 /\ loc[1] = SLASH /\ loc[2] = SLASH
  THEN LET host == Split(SkipSlashes(loc), SLASH)[1]
       IN  IF host = <<>> THEN [site |-> "none", path |-> <<>>]
           ELSE [site |-> "other", path |-> <<>>]
  ELSE [site |-> "same", path |-> loc]

\* the client asks for a path
ClientRequest ==
  /\ pc = "idle"
  /\ \E r \in FollowRequests :
       /\ Accept(r)
       /\ asked' = r.path
  /\ hops' = 0
  /\ UNCHANGED <<other, benchVars>>

\* the client follows the redirect it was answered with: it asks this
\* server for the path of the Location, or goes where the Location leads
Follow ==
  /\ pc = "done"
  /\ IsRedirectStatus(resp.status)
  /\ "location" \in DOMAIN resp.headers
  /\ LET to == ResolveLocation(resp.headers["location"])
     IN  IF to.site = "same"
         THEN /\ req' = [req EXCEPT !.path = to.path]
              /\ pc' = "slash"
              /\ resp' = EmptyResponse
              /\ invoked' = {}
         ELSE /\ pc' = "away"
              /\ UNCHANGED <<req, resp, invoked>>
  /\ hops' = hops + 1
  /\ UNCHANGED <<start, pending, asked>>
  /\ UNCHANGED <<other, benchVars>>

\* the client that went elsewhere is gone; the server waits for the next
Gone ==
  /\ pc = "away"
  /\ pc' = "idle"
  /\ req' = NoRequest
  /\ resp' = EmptyResponse
  /\ invoked' = {}
  /\ UNCHANGED <<start, pending>>
  /\ UNCHANGED elsewhere

NextFollow ==
  \/ ClientRequest
  \/ TrailingSlash
  \/ TimingStart
  \/ GetHandler
  \/ AuthBearerHandler
  \/ StatusHandler
  \/ NoRoute
  \/ TimingEnd
  \/ Send
  \/ Follow
  \/ Gone
  \/ Finish

SpecFollow == Init /\ [][NextFollow]_vars

(***************************************************************************)
(* Properties.  Each is stated from the request and the response alone,    *)
(* with its own reading of the request, so that it can disagree with the   *)
(* handlers above.                                                         *)
(***************************************************************************)
Done(route) == pc = "done" /\ route \in invoked

\* the values an ordered multi-map holds for key k, in original order
ValuesOf(m, k) ==
  LET sel == SelectSeq(m, LAMBDA e : e.k = k)
  IN  [i \in 1..Len(sel) |-> sel[i].v]

KeysOf(m) == {m[i].k : i \in 1..Len(m)}

CountChar(s, c) == Cardinality({i \in 1..Len(s) : s[i] = c})

\* the Authorization header is exactly: scheme, one space, one token
TwoTokens(h, scheme) ==
  /\ KeysOf(h) = {"authorization"}
  /\ Len(h) = 1
  /\ CountChar(h[1].v, SP) = 1
  /\ Len(h[1].v) > Len(scheme)
  /\ SubSeq(h[1].v, 1, Len(scheme) + 1) = scheme \o <<SP>>

SecondToken(h, scheme) == SubSeq(h[1].v, Len(scheme) + 2, Len(h[1].v))

\* C1: GET /auth/basic/{user}/{pass} answers 200 {authorized:true, username}
\* exactly when the Authorization header is "Basic <token>" and the token
\* base64-decodes to "user:pass" (one colon); every other request, a token
\* that is not valid base64 included, is answered 401 with the challenge
\* header and {authorized:false, username:null}.
C1_BasicAuthTotalDecision ==
  Done("basic") =>
    LET user == PathSegs(req.path)[3]
        pass == PathSegs(req.path)[4]
        tok == SecondToken(req.headers, BasicStr)
        ok == /\ TwoTokens(req.headers, BasicStr)
              /\ Atob(tok).ok
              /\ CountChar(Atob(tok).bytes, COLON) = 1
              /\ Atob(tok).bytes = user \o <<COLON>> \o pass
    IN  IF ok
        THEN /\ resp.status = 200
             /\ resp.body = JsonBody([authorized |-> TRUE, username |-> StrVal(user)])
        ELSE /\ resp.status = 401
             /\ "www-authenticate" \in DOMAIN resp.headers
             /\ resp.headers["www-authenticate"] = RealmStr
             /\ resp.body = JsonBody([authorized |-> FALSE, username |-> NullVal])

\* the integer a string of decimal digits denotes
RECURSIVE Pow10(_)
Pow10(k) == IF k = 0 THEN 1 ELSE 10 * Pow10(k - 1)

RECURSIVE DecimalValueFrom(_, _)
DecimalValueFrom(s, i) ==
  IF i > Len(s) THEN 0
  ELSE (s[i] - 48) * Pow10(Len(s) - i) + DecimalValueFrom(s, i + 1)

DecimalValue(s) == DecimalValueFrom(s, 1)

\* d is the decimal numeral of n, without leading zeros
IsNumeralOf(d, n) ==
  /\ AllDigits(d)
  /\ (Len(d) > 1 => d[1] # 48)
  /\ DecimalValue(d) = n

OutsideRangeMessage(code) ==
  JsonBody([error |-> <<"status code ", code, " is outside the range [200, 599]">>])

NonNumericStatusPath(path) ==
  LET segs == PathSegs(path)
  IN  /\ Len(segs) = 2
      /\ segs[1] = SegStatus
      /\ Len(segs[2]) >= 1
      /\ ~AllDigits(segs[2])

\* C3: a request to /status/{code} whose code is not a number (e.g. "abc")
\* is answered 400 {error: 'status code is not a number'}.
C3_NonNumericCodeIs400 ==
  (pc = "done" /\ NonNumericStatusPath(req.path)) =>
    /\ resp.status = 400
    /\ resp.body = JsonBody([error |-> <<"status code is not a number">>])

\* s is <digits>.<two digits>ms
IsResponseTime(s) ==
  /\ Len(s) >= 6
  /\ SubSeq(s, Len(s) - 1, Len(s)) = MsStr
  /\ s[Len(s) - 4] = 46
  /\ AllDigits(SubSeq(s, 1, Len(s) - 5))
  /\ AllDigits(SubSeq(s, Len(s) - 3, Len(s) - 2))

\* C4: every response sent carries X-Response-Time: <ms to two decimals>ms,
\* whatever its status, the trailing-slash redirect and the answer to a
\* request whose handler throws included.
C4_EveryResponseTimed ==
  pc = "done" =>
    /\ "x-response-time" \in DOMAIN resp.headers
    /\ IsResponseTime(resp.headers["x-response-time"])

\* C5: no request makes a handler fail: no exception ever escapes a handler
\* to the serving layer's error handler (which answers 500).
C5_NoHandlerThrows == pc # "error"

\* detecting the body type or awaiting/decoding its value fails
BodyFails(b) ==
  \/ ~b.detectOk
  \/ b.type \in {"json", "form-data", "form", "text", "bytes"} /\ ~b.readOk

ErrorBody == [type |-> "error", value |-> NullVal]

\* C6: bodyInfo never propagates an exception: when detecting or decoding
\* the body fails it returns exactly {body: {type: 'error', value: null}},
\* and the write-method handler that called it still answers 200 with this
\* body next to the basic descriptor.
C6_BodyInfoNeverThrows ==
  /\ pc = "awaitBody" =>
       /\ ~pending.body.threw
       /\ BodyFails(req.body) => pending.body.body = ErrorBody
  /\ \A route \in WriteRoutes :
       (Done(route) /\ BodyFails(req.body)) =>
         /\ resp.status = 200
         /\ resp.body.t = "json"
         /\ DOMAIN resp.body.v = {"origin", "url", "searchParams", "headers", "body"}
         /\ resp.body.v.body = ErrorBody
         /\ resp.body.v.origin = req.ip

\* C6 witness: a PUT whose JSON body could not be decoded was answered 200
\* with the error body
C6_Witness ==
  /\ Done("put")
  /\ req.body.type = "json" /\ req.body.detectOk /\ ~req.body.readOk
  /\ resp.status = 200
  /\ resp.body.v.body = ErrorBody

\* C7: a request whose path is not "/" and ends with "/" is answered 301
\* with Location = the path less its last slash, and neither the timing
\* middleware, the router nor a handler runs for it; a request whose path is
\* "/" or does not end with "/" is not answered by this middleware and
\* reaches the router.
C7_TrailingSlashRedirect ==
  LET slashed == Len(req.path) >= 2 /\ req.path[Len(req.path)] = SLASH
  IN  /\ (pc # "idle" /\ slashed) => invoked \subseteq {"slash"}
      /\ (pc = "done" /\ slashed) =>
           /\ resp.status = 301
           /\ "location" \in DOMAIN resp.headers
           /\ resp.headers["location"] \o <<SLASH>> = req.path
      /\ (pc = "done" /\ ~slashed) => {"slash", "timing", "router"} \subseteq invoked

\* C7 witness: GET /get/ was answered 301 to /get without reaching the router
C7_Witness ==
  /\ pc = "done"
  /\ req.path = PathOf(<<SegGet>>) \o <<SLASH>>
  /\ resp.status = 301
  /\ resp.headers["location"] = PathOf(<<SegGet>>)
  /\ invoked = {"slash"}

ErrorOnly(b) == b.t = "json" /\ DOMAIN b.v = {"error"}

IsPermanent(q) ==
  /\ "permanent" \in KeysOf(q)
  /\ ValuesOf(q, "permanent")[1] \in {OneStr, TrueStr}

\* C8 as stated: GET /redirect without 'to' is answered 400 with an error
\* body and no redirect; with 'to' present it is answered with a redirect
\* whose Location is the 'to' value verbatim, 301 when 'permanent' is '1' or
\* 'true' and 302 otherwise.
C8_RedirectWheneverToPresent ==
  Done("redirect") =>
    IF "to" \notin KeysOf(req.query)
    THEN /\ resp.status = 400
         /\ ErrorOnly(resp.body)
         /\ "location" \notin DOMAIN resp.headers
    ELSE /\ "location" \in DOMAIN resp.headers
         /\ resp.headers["location"] = ValuesOf(req.query, "to")[1]
         /\ resp.status = IF IsPermanent(req.query) THEN 301 ELSE 302

\* s with every space written %20
RECURSIVE SpacesEscaped(_)
SpacesEscaped(s) ==
  IF Len(s) = 0 THEN <<>>
  ELSE (IF s[1] = SP THEN <<37, 50, 48>> ELSE <<s[1]>>) \o SpacesEscaped(Tail(s))

\* C8 (amended): GET /redirect whose first 'to' is absent or empty is
\* answered 400 with an error body and no redirect; otherwise it is answered
\* with a redirect whose Location is the 'to' value, verbatim but for
\* characters that are not URL-safe, which are percent-encoded (a space is
\* written %20), 301 when the first 'permanent' is '1' or 'true' and 302
\* otherwise.
C8_RedirectWhenToNonEmpty ==
  Done("redirect") =>
    IF "to" \notin KeysOf(req.query) \/ ValuesOf(req.query, "to")[1] = <<>>
    THEN /\ resp.status = 400
         /\ ErrorOnly(resp.body)
         /\ "location" \notin DOMAIN resp.headers
    ELSE /\ "location" \in DOMAIN resp.headers
         /\ resp.headers["location"] = SpacesEscaped(ValuesOf(req.query, "to")[1])
         /\ resp.status = IF IsPermanent(req.query) THEN 301 ELSE 302

\* C8 witness: /redirect?to=u&permanent=true was answered 301 to u
C8_Witness ==
  /\ Done("redirect")
  /\ req.query = <<[k |-> "to", v |-> <<117>>], [k |-> "permanent", v |-> TrueStr]>>
  /\ resp.status = 301
  /\ resp.headers["location"] = <<117>>

\* C9: GET /auth/bearer answers 200 {authorized:true, token:t} exactly when
\* the Authorization header is "Bearer", one space and one token t; in every
\* other case it answers 401 with WWW-Authenticate: Bearer and
\* {authorized:false, token:null}.
C9_BearerDecision ==
  Done("bearer") =>
    IF TwoTokens(req.headers, BearerStr)
    THEN /\ resp.status = 200
         /\ resp.body = JsonBody([authorized |-> TRUE,
                                  token |-> StrVal(SecondToken(req.headers, BearerStr))])
         /\ "www-authenticate" \notin DOMAIN resp.headers
    ELSE /\ resp.status = 401
         /\ "www-authenticate" \in DOMAIN resp.headers
         /\ resp.headers["www-authenticate"] = BearerStr
         /\ resp.body = JsonBody([authorized |-> FALSE, token |-> NullVal])

\* C9 witness: "Bearer aDp3" was answered 200 with token aDp3
C9_Witness ==
  /\ Done("bearer")
  /\ req.headers = <<[k |-> "authorization", v |-> BearerStr \o <<SP, 97, 68, 112, 51>>]>>
  /\ resp.status = 200
  /\ resp.body.v.token = StrVal(<<97, 68, 112, 51>>)

\* obj is the FlattenedMap of the multi-map m
IsFlattenedMapOf(obj, m) ==
  /\ DOMAIN obj = KeysOf(m)
  /\ \A k \in KeysOf(m) :
       obj[k] = IF Len(ValuesOf(m, k)) = 1
                THEN StrVal(ValuesOf(m, k)[1])
                ELSE ArrVal(ValuesOf(m, k))

\* obj holds, for each header name whose combined value is not empty, that
\* combined value: the name's values joined with ", "
IsCombinedHeadersOf(obj, m) ==
  /\ DOMAIN obj = {k \in KeysOf(m) : Join(ValuesOf(m, k), CommaSp) # <<>>}
  /\ \A k \in DOMAIN obj : obj[k] = StrVal(Join(ValuesOf(m, k), CommaSp))

\* C10 as stated: the result of toObject, for headers and for query
\* parameters alike, is a FlattenedMap: a key occurring once maps to its
\* value, a key occurring more often to the sequence of its values in
\* order, and a key is in the result exactly when it is in the source.
C10_BothAreFlattenedMaps ==
  /\ Done("get") =>
       /\ IsFlattenedMapOf(resp.body.v.searchParams, req.query)
       /\ IsFlattenedMapOf(resp.body.v.headers, req.headers)
  /\ Done("headers") => IsFlattenedMapOf(resp.body.v.headers, req.headers)

\* C10 (amended): the result of toObject for URL query parameters is a
\* FlattenedMap (a key occurring once maps to its value, a key occurring
\* more often to the sequence of its values in order, a key is in the result
\* exactly when it is in the source); for HTTP headers every name maps to
\* the single string of its values joined with ", ", and a name whose
\* joined value is empty is dropped.
C10_ParamsFlattenedHeadersCombined ==
  /\ Done("get") =>
       /\ IsFlattenedMapOf(resp.body.v.searchParams, req.query)
       /\ IsCombinedHeadersOf(resp.body.v.headers, req.headers)
  /\ Done("headers") => IsCombinedHeadersOf(resp.body.v.headers, req.headers)

\* C10 witness: /get?a=x&a=y answered with searchParams.a = [x, y]
C10_Witness ==
  /\ Done("get")
  /\ req.query = <<[k |-> "a", v |-> <<120>>], [k |-> "a", v |-> <<121>>]>>
  /\ resp.body.v.searchParams = [a |-> ArrVal(<< <<120>>, <<121>> >>)]

\* re-expanding a flattened value: a scalar is one value, a sequence its
\* elements, an absent key no value
Expand(obj, k) ==
  IF k \notin DOMAIN obj THEN <<>>
  ELSE IF obj[k].t = "arr" THEN obj[k].v
  ELSE <<obj[k].v>>

\* the sequences a and b hold the same values the same number of times
SameMultiset(a, b) ==
  \A v \in {a[i] : i \in 1..Len(a)} \cup {b[i] : i \in 1..Len(b)} :
    Cardinality({i \in 1..Len(a) : a[i] = v}) = Cardinality({i \in 1..Len(b) : b[i] = v})

\* flattening m to obj and re-expanding recovers every key's values
RoundTrips(obj, m) ==
  /\ KeysOf(m) \subseteq DOMAIN obj
  /\ \A k \in DOMAIN obj : SameMultiset(Expand(obj, k), ValuesOf(m, k))

\* C11 as stated: for header multi-maps and query-parameter multi-maps
\* alike, flattening with toObject and re-expanding recovers, for each key,
\* the original multiset of values, empty strings and repeated keys
\* included.
C11_RoundTripHeadersAndParams ==
  /\ Done("get") =>
       /\ RoundTrips(resp.body.v.searchParams, req.query)
       /\ RoundTrips(resp.body.v.headers, req.headers)
  /\ Done("headers") => RoundTrips(resp.body.v.headers, req.headers)

\* what re-expansion gives for the headers of m: the one value of a name
\* that occurs once with a non-empty value; for a repeated name the single
\* string of its values joined with ", "; nothing for a name whose joined
\* value is empty
HeadersReExpand(obj, m) ==
  \A k \in KeysOf(m) :
    LET vals == ValuesOf(m, k)
    IN  /\ (Len(vals) = 1 /\ vals[1] # <<>>) => Expand(obj, k) = vals
        /\ Len(vals) > 1 /\ Join(vals, CommaSp) # <<>> =>
             Expand(obj, k) = <<Join(vals, CommaSp)>>
        /\ Join(vals, CommaSp) = <<>> => Expand(obj, k) = <<>>

\* C11 (amended): for every query-parameter multi-map, flattening with
\* toObject and re-expanding recovers, for each key, the original values in
\* order, empty strings and repeated keys included; for a header multi-map
\* it recovers the values only of a name that occurs once with a non-empty
\* value: a repeated name re-expands to the one string of its values joined
\* with ", ", and a name whose joined value is empty is lost.
C11_RoundTripParamsOnly ==
  /\ Done("get") =>
       /\ RoundTrips(resp.body.v.searchParams, req.query)
       /\ \A k \in KeysOf(req.query) :
            Expand(resp.body.v.searchParams, k) = ValuesOf(req.query, k)
       /\ HeadersReExpand(resp.body.v.headers, req.headers)
  /\ Done("headers") => HeadersReExpand(resp.body.v.headers, req.headers)

\* C11 witness: /get?a=&a=x answered with searchParams.a = ["", x], which
\* re-expands to the two original values
C11_Witness ==
  /\ Done("get")
  /\ req.query = <<[k |-> "a", v |-> <<>>], [k |-> "a", v |-> <<120>>]>>
  /\ Expand(resp.body.v.searchParams, "a") = << <<>>, <<120>> >>

\* the write routes: method, path segment, route
WriteTable ==
  { <<"POST", SegPost, "post">>, <<"PUT", SegPut, "put">>,
    <<"PATCH", SegPatch, "patch">>, <<"DELETE", SegDelete, "delete">> }

\* obj carries the four basic fields of request r
HasBasicFieldsOf(obj, r) ==
  /\ {"origin", "url", "searchParams", "headers"} \subseteq DOMAIN obj
  /\ obj.origin = r.ip
  /\ obj.url = [path |-> r.path, query |-> r.query]
  /\ IsFlattenedMapOf(obj.searchParams, r.query)
  /\ IsCombinedHeadersOf(obj.headers, r.headers)

\* d is the DecodedBody of the request body b
IsDecodedBodyOf(d, b) ==
  /\ DOMAIN d = {"type", "value"}
  /\ IF ~b.detectOk \/ (b.type \in {"json", "form-data", "form", "text", "bytes"} /\ ~b.readOk)
     THEN d.type = "error" /\ d.value = NullVal
     ELSE /\ d.type = b.type
          /\ CASE b.type = "json" -> d.value.v = b.payload
               [] b.type = "form-data" -> d.value.fields = b.payload.fields
               [] b.type = "form" -> IsFlattenedMapOf(d.value.v, b.payload)
               [] b.type = "text" -> d.value = StrVal(b.payload)
               [] b.type = "bytes" ->
                    LET parts == Split(d.value.v, 44)
                    IN  /\ Len(parts) = Len(b.payload)
                        /\ \A i \in 1..Len(parts) : IsNumeralOf(parts[i], b.payload[i])
               [] OTHER -> d.value = NullVal

\* C12: a request to /post, /put, /patch or /delete with the matching method
\* is answered 200 with a body of exactly the keys origin, url, searchParams,
\* headers and body; the first four are the basic fields of the same request
\* (what /get returns for it) and body is the DecodedBody, so the merge
\* overwrites no basic field; the /get response has the four basic fields
\* and no body key.
C12_WriteEchoMergesBasicAndBody ==
  /\ \A w \in WriteTable :
       (pc = "done" /\ req.method = w[1] /\ req.path = PathOf(<<w[2]>>)) =>
         /\ w[3] \in invoked
         /\ resp.status = 200
         /\ resp.body.t = "json"
         /\ DOMAIN resp.body.v = {"origin", "url", "searchParams", "headers", "body"}
         /\ HasBasicFieldsOf(resp.body.v, req)
         /\ IsDecodedBodyOf(resp.body.v.body, req.body)
  /\ Done("get") =>
       /\ resp.status = 200
       /\ resp.body.t = "json"
       /\ DOMAIN resp.body.v = {"origin", "url", "searchParams", "headers"}
       /\ HasBasicFieldsOf(resp.body.v, req)

\* C12 witness: PUT /put with a form body was answered with the basic
\* fields and body = {type: form, value: {a: [x, y]}}
C12_Witness ==
  /\ Done("put")
  /\ req.body.type = "form" /\ req.body.readOk /\ req.body.payload = SampleQuery
  /\ resp.body.v.origin = "10.0.0.1"
  /\ resp.body.v.body.type = "form"
  /\ resp.body.v.body.value.v = [a |-> ArrVal(<< <<120>>, <<121>> >>)]

\* the content types the framework decodes by their own rule
KnownContentTypes ==
  {"application/json", "multipart/form-data", "application/x-www-form-urlencoded",
   "text/plain"}

\* the DecodedBody a write route answered with
Decoded == resp.body.v.body

DoneWrite == \E route \in WriteRoutes : Done(route)

\* a multipart value has both keys, and files is null when none were sent
MultipartComplete(d, b) ==
  /\ {"fields", "files"} \subseteq DOMAIN d.value
  /\ b.payload.files = "undefined" => d.value.files = NullVal

\* C13 as stated: the type tag is one of json, form, multipart, text, bytes,
\* none, error; a request with no body or an unrecognized body type gets the
\* tag of its declared or absent type and a null value; a multipart value
\* has both fields and files, files being null when no files were sent.
C13_TagsAsNamed ==
  DoneWrite =>
    LET b == req.body
    IN  /\ DOMAIN Decoded = {"type", "value"}
        /\ Decoded.type \in {"json", "form", "multipart", "text", "bytes", "none", "error"}
        /\ (b.detectOk /\ b.declared \notin KnownContentTypes) => Decoded.value = NullVal
        /\ (b.detectOk /\ b.readOk /\ b.declared = "multipart/form-data") =>
             Decoded.type = "multipart" /\ MultipartComplete(Decoded, b)

\* C13 (amended): the type tag is one of json, form, form-data, text, bytes,
\* undefined, error; a request with no body gets the tag undefined and a
\* null value; a body of an unrecognized content type is read as bytes (tag
\* bytes, the value a string) or, when reading fails, gets the tag error and
\* a null value; a multipart body that is read gets the tag form-data and a
\* value with both fields and files, files being null when no files were
\* sent.
C13_TagsOfTheFramework ==
  DoneWrite =>
    LET b == req.body
    IN  /\ DOMAIN Decoded = {"type", "value"}
        /\ Decoded.type \in {"json", "form", "form-data", "text", "bytes", "undefined", "error"}
        /\ (b.detectOk /\ b.declared = "absent") =>
             Decoded.type = "undefined" /\ Decoded.value = NullVal
        /\ (b.detectOk /\ b.declared \notin KnownContentTypes \cup {"absent"}) =>
             IF b.readOk
             THEN Decoded.type = "bytes" /\ Decoded.value.t = "str"
             ELSE Decoded.type = "error" /\ Decoded.value = NullVal
        /\ (b.detectOk /\ b.readOk /\ b.declared = "multipart/form-data") =>
             Decoded.type = "form-data" /\ MultipartComplete(Decoded, b)

\* C13 witness: a multipart body without files was answered with the tag
\* form-data, its fields and files = null
C13_Witness ==
  /\ Done("post")
  /\ req.body.declared = "multipart/form-data"
  /\ req.body.readOk /\ req.body.payload.files = "undefined"
  /\ Decoded.type = "form-data"
  /\ Decoded.value.fields = "fields"
  /\ Decoded.value.files = NullVal

\* answer a is what request r gets when it is handled alone: its status,
\* its body and its headers other than x-response-time, read from r only
AnsweredAlone(r, a) ==
  /\ a.status = 200
  /\ DOMAIN a.headers \subseteq {"x-response-time"}
  /\ a.body.t = "json"
  /\ IF r.path = PathOf(<<SegIp>>)
     THEN a.body.v = [origin |-> r.ip]
     ELSE /\ HasBasicFieldsOf(a.body.v, r)
          /\ IF r.method = "GET"
             THEN DOMAIN a.body.v = {"origin", "url", "searchParams", "headers"}
             ELSE /\ DOMAIN a.body.v = {"origin", "url", "searchParams", "headers", "body"}
                  /\ IsDecodedBodyOf(a.body.v.body, r.body)

\* C14: requests do not interfere.  With two exchanges in flight, their
\* handlers interleaving where the body is awaited, in any order and after
\* any earlier exchanges, the status, the body and the headers other than
\* x-response-time of every response are determined by its own request, and
\* are those of the request handled alone.
C14_NoInterference ==
  /\ pc = "done" => AnsweredAlone(req, resp)
  /\ other.pc = "done" => AnsweredAlone(other.req, other.resp)

\* C14 witness: a POST from 10.0.0.2 with a text body was answered with its
\* own address and body while a POST from 10.0.0.1 with a JSON body was
\* suspended at its await
C14_Witness ==
  /\ Done("post")
  /\ req.ip = "10.0.0.2" /\ req.body.type = "text"
  /\ other.pc = "awaitBody"
  /\ other.req.ip = "10.0.0.1" /\ other.req.body.type = "json"
  /\ resp.body.v.origin = "10.0.0.2"
  /\ resp.body.v.body = [type |-> "text", value |-> StrVal(<<120>>)]

\* the requests a server got for the n-th benchmark, in the order sent
SentTo(n, root) == SelectSeq(log, LAMBDA e : e.task = n /\ e.root = root)

\* the time reported for them: the average of exactly ITERATIONS answers
IsAverageOf(time, sent) ==
  /\ Len(sent) = ITERATIONS
  /\ \A i \in 1..Len(sent) : sent[i].answered
  /\ time.den = ITERATIONS
  /\ time.num = Sum([i \in 1..Len(sent) |-> sent[i].took])

\* the requests sent before the k-th, to a server, for the same benchmark
EarlierTo(k, root) ==
  {j \in 1..(k - 1) : log[j].task = log[k].task /\ log[j].root = root /\ log[j].answered}

\* C15: the benchmark run is strictly sequential.  At most one timed request
\* is in flight; the benchmarks run in the order listed; within a benchmark
\* the Deno server gets all ITERATIONS (10) requests before the Python
\* server gets its first, and Python all 10 before Go gets its first; and
\* each reported time is the average of exactly the 10 measurements of that
\* server for that benchmark.
C15_SequentialRun ==
  /\ Cardinality({k \in 1..Len(log) : ~log[k].answered}) <= 1
  /\ \A j, k \in 1..Len(log) : j < k => log[j].task <= log[k].task
  /\ \A n \in 1..Len(results) : results[n].endpoint = tasks[n].endpoint
  /\ \A k \in 1..Len(log) :
       /\ log[k].root = PYTHON_ROOT => Cardinality(EarlierTo(k, DENO_ROOT)) = ITERATIONS
       /\ log[k].root = GO_ROOT => Cardinality(EarlierTo(k, PYTHON_ROOT)) = ITERATIONS
       /\ log[k].root = DENO_ROOT =>
            EarlierTo(k, PYTHON_ROOT) = {} /\ EarlierTo(k, GO_ROOT) = {}
       /\ Cardinality(EarlierTo(k, log[k].root)) < ITERATIONS
  /\ \A n \in 1..Len(results) :
       /\ IsAverageOf(results[n].denoTime, SentTo(n, DENO_ROOT))
       /\ IsAverageOf(results[n].pythonTime, SentTo(n, PYTHON_ROOT))
       /\ IsAverageOf(results[n].goTime, SentTo(n, GO_ROOT))

\* C15 witness: a run of two benchmarks is over; 60 requests were sent and
\* answered, and with answers slowing by 1 ms each the first Deno time is
\* 255/10 ms, the first Python time 555/10 ms
C15_Witness ==
  /\ bpc = "done"
  /\ network = "ramp"
  /\ Len(results) = 2
  /\ Len(log) = 2 * 3 * ITERATIONS
  /\ \A k \in 1..Len(log) : log[k].answered
  /\ results[1].denoTime = [num |-> 255, den |-> ITERATIONS]
  /\ results[1].pythonTime = [num |-> 555, den |-> ITERATIONS]

RECURSIVE TrailingSlashes(_)
TrailingSlashes(s) ==
  IF Len(s) > 0 /\ s[Len(s)] = SLASH
  THEN 1 + TrailingSlashes(SubSeq(s, 1, Len(s) - 1))
  ELSE 0

\* C17 as stated: a client that follows the trailing-slash redirects always
\* ends at routing.  From a path that is not '/' and ends with k >= 1
\* slashes, every followed redirect makes the client ask this server for
\* the path less its last character, so that after at most k redirects it
\* asks for a path that is '/' or has no trailing slash, which the
\* normalizer passes on to routing and does not redirect again.
C17_FollowingEndsAtRouting ==
  /\ pc # "away"
  /\ pc # "idle" =>
       /\ hops <= TrailingSlashes(asked)
       /\ req.path = SubSeq(asked, 1, Len(asked) - hops)
  /\ (pc = "done" /\ "timing" \notin invoked) =>
       (resp.status = 301 /\ req.path # <<SLASH>> /\ EndsWithChar(req.path, SLASH))
  /\ "timing" \in invoked =>
       (req.path = <<SLASH>> \/ ~EndsWithChar(req.path, SLASH))

=============================================================================
